---- MODULE Spec2Model ----
(***************************************************************************)
(* A model of apachehttpmount.py: the Http FUSE adapter, its path cache    *)
(* (_get with the file-size back-patch), the auto-index listing parser     *)
(* (_parse_listing) and the FUSE operations built on them.                 *)
(*                                                                         *)
(* Paths are sequences of path segments: <<>> is '/', <<"a","b">> is       *)
(* '/a/b'.  The HTTP server is the environment: every GET is answered by   *)
(* a response the action draws from Responses.                             *)
(***************************************************************************)
EXTENDS Integers, Sequences, FiniteSets, TLC

\* ------------------------------------------------------------------ bounds

\* Most GETs the server answers with an error status or a malformed listing.
MaxFailures == 1
\* Most handles handed out by open.
MaxFd == 2

\* --------------------------------------------------------- program constants

O_LARGEFILE == 32768
O_RDONLY == 0
W_OK == 2
X_OK == 1
S_IFDIR == 16384
S_IFREG == 32768
DirPerm == 365
FilePerm == 292

\* ------------------------------------------------------------------- paths

Paths == { <<>>, <<"a">>, <<"a", "b">> }

\* os.path.dirname on a normalised absolute path; dirname('/') is '/'.
Dirname(p) == IF p = <<>> THEN <<>> ELSE SubSeq(p, 1, Len(p) - 1)

\* os.path.basename on a normalised absolute path; basename('/') is ''.
Basename(p) == IF p = <<>> THEN "" ELSE p[Len(p)]

\* ---------------------------------------------------------- cache entries

Unset == [tag |-> "Unset"]
Absent == [tag |-> "Absent"]
FileContent(b) == [tag |-> "File", content |-> b]
DirectoryListing(es) == [tag |-> "Dir", entries |-> es]

\* ------------------------------------------------------- the listing parser

\* The units of a size field, by rank: sizes = [''] + list('KMGTP').
sizes == << "", "K", "M", "G", "T", "P" >>

RECURSIVE Pow1024(_)
Pow1024(r) == IF r = 0 THEN 1 ELSE 1024 * Pow1024(r - 1)

SizesIndex(u) == CHOOSE i \in 1..Len(sizes) : sizes[i] = u

\* Mutant of DecodeSize: the 0.1 is not added.
DecodeSizeWithoutBias(f, u) ==
    IF f.dash THEN [ok |-> TRUE, size |-> 0]
    ELSE IF ~f.isfloat THEN [ok |-> FALSE, exc |-> "ValueError"]
    ELSE IF \A i \in 1..Len(sizes) : sizes[i] # u
         THEN [ok |-> FALSE, exc |-> "ValueError"]
    ELSE [ok |-> TRUE,
          size |-> (f.tenths * Pow1024(SizesIndex(u) - 1)) \div 10]

\* The size expression of _parse_listing.  A size field is the dash, or a
\* decimal number held as its tenths (1.5 is 15); float(str_size) fails on a
\* field the pattern admits but float does not ('1.2.3'), and sizes.index
\* fails on a unit that is not in the list.
\* int((0.1 + x) * 2**(10*r)) with x = tenths/10 is floor((tenths+1) * 1024^r / 10).
DecodeSize(f, u) ==
    IF f.dash THEN [ok |-> TRUE, size |-> 0]
    ELSE IF ~f.isfloat THEN [ok |-> FALSE, exc |-> "ValueError"]
    ELSE IF \A i \in 1..Len(sizes) : sizes[i] # u
         THEN [ok |-> FALSE, exc |-> "ValueError"]
    ELSE [ok |-> TRUE,
          size |-> ((f.tenths + 1) * Pow1024(SizesIndex(u) - 1)) \div 10]

\* result[name] = value on an OrderedDict: a new key is appended, an old key
\* keeps its place and takes the new value.
OrderedDictSet(d, e) ==
    IF \E i \in 1..Len(d) : d[i].name = e.name
    THEN [i \in 1..Len(d) |-> IF d[i].name = e.name THEN e ELSE d[i]]
    ELSE Append(d, e)

\* One entry line.  A line is a record: whether the pattern matches it, and
\* then the groups.  A name (and a url) is its text without trailing
\* slashes and the number of trailing slashes, which is what endswith('/')
\* and rstrip('/') look at.  A date is 0 when strptime rejects it, and else
\* the timestamp it parses to.
ParseEntry(line) ==
    IF ~line.matches THEN [ok |-> FALSE, exc |-> "AssertionError"]
    ELSE IF line.url # line.name THEN [ok |-> FALSE, exc |-> "AssertionError"]
    ELSE LET isdir == line.name.slashes > 0
             name == line.name.base
         IN  IF isdir # (line.icon = "DIR")
             THEN [ok |-> FALSE, exc |-> "AssertionError"]
             ELSE IF line.date = 0 THEN [ok |-> FALSE, exc |-> "ValueError"]
             ELSE LET sz == DecodeSize(line.size, line.sizeunit)
                  IN  IF ~sz.ok THEN sz
                      ELSE [ok |-> TRUE,
                            entry |-> [name |-> name, icon |-> line.icon,
                                       size |-> sz.size, mtime |-> line.date]]

RECURSIVE ParseEntries(_, _)
ParseEntries(entries, result) ==
    IF entries = <<>> THEN [ok |-> TRUE, entries |-> result]
    ELSE LET e == ParseEntry(Head(entries))
         IN  IF ~e.ok THEN e
             ELSE ParseEntries(Tail(entries), OrderedDictSet(result, e.entry))

\* _parse_listing.  A text is the number of '<pre>' and of '</pre>' in it
\* and the lines between them; a line carries its counts of 'Name' and of
\* 'Last modified' and whether it is '<hr>'.
ParseListing(text) ==
    IF ~(text.nstart = text.nend /\ text.nend = 1)
    THEN [ok |-> FALSE, exc |-> "AssertionError"]
    ELSE IF text.lines = <<>> THEN [ok |-> FALSE, exc |-> "IndexError"]
    ELSE LET lines == text.lines
             header == lines[1]
         IN  IF ~(header.nName = header.nLastMod /\ header.nLastMod = 1)
             THEN [ok |-> FALSE, exc |-> "AssertionError"]
             ELSE IF ~lines[Len(lines)].hr
             THEN [ok |-> FALSE, exc |-> "AssertionError"]
             ELSE ParseEntries(SubSeq(lines, 2, Len(lines) - 1), <<>>)

\* ------------------------------------------------------------ the server

\* The texts of names, lines and size fields the server's listings are made of.
Nm(b, s) == [base |-> b, slashes |-> s]

Num(t) == [dash |-> FALSE, isfloat |-> TRUE, tenths |-> t]

NotANumber == [dash |-> FALSE, isfloat |-> FALSE, tenths |-> 0]

Dash == [dash |-> TRUE, isfloat |-> FALSE, tenths |-> 0]

NoGroups == [icon |-> "", url |-> Nm("", 0), name |-> Nm("", 0), date |-> 0,
             size |-> Dash, sizeunit |-> ""]

Line(n, m, hr, matches, g) ==
    [nName |-> n, nLastMod |-> m, hr |-> hr, matches |-> matches,
     icon |-> g.icon, url |-> g.url, name |-> g.name, date |-> g.date,
     size |-> g.size, sizeunit |-> g.sizeunit]

HeaderLine(n, m) == Line(n, m, FALSE, FALSE, NoGroups)

HrLine == Line(0, 0, TRUE, FALSE, NoGroups)

JunkLine == Line(0, 0, FALSE, FALSE, NoGroups)

EntryLine(icon, url, name, date, size, unit) ==
    Line(0, 0, FALSE, TRUE,
         [icon |-> icon, url |-> url, name |-> name, date |-> date,
          size |-> size, sizeunit |-> unit])

Text(es) == [nstart |-> 1, nend |-> 1,
             lines |-> <<HeaderLine(1, 1)>> \o es \o <<HrLine>>]

DirA == EntryLine("DIR", Nm("a", 1), Nm("a", 1), 1, Dash, "")

FileB == EntryLine("TXT", Nm("b", 0), Nm("b", 0), 2, Num(15), "K")

\* Listings the parser accepts.
GoodTexts ==
    { Text(<<DirA, FileB>>), Text(<<>>) }

\* Listings the parser rejects, one for each of its checks.
BadTexts ==
    { [nstart |-> 2, nend |-> 2, lines |-> Text(<<>>).lines],
      [nstart |-> 1, nend |-> 1, lines |-> <<>>],
      [nstart |-> 1, nend |-> 1, lines |-> <<HeaderLine(1, 0), HrLine>>],
      [nstart |-> 1, nend |-> 1, lines |-> <<HeaderLine(1, 1), FileB>>],
      Text(<<FileB, JunkLine>>),
      Text(<<EntryLine("TXT", Nm("a", 0), Nm("b", 0), 1, Num(10), "")>>),
      Text(<<EntryLine("TXT", Nm("a", 1), Nm("a", 1), 1, Dash, "")>>),
      Text(<<EntryLine("TXT", Nm("b", 0), Nm("b", 0), 0, Num(10), "")>>),
      Text(<<EntryLine("TXT", Nm("b", 0), Nm("b", 0), 1, NotANumber, "")>>),
      Text(<<EntryLine("TXT", Nm("b", 0), Nm("b", 0), 1, Num(10), "B")>>) }

\* The malformed listings the server of the adapter's specification sends:
\* one the parser rejects by an assertion, one by strptime.
ServedBadTexts ==
    { [nstart |-> 1, nend |-> 1, lines |-> <<HeaderLine(1, 0), HrLine>>],
      Text(<<EntryLine("TXT", Nm("b", 0), Nm("b", 0), 0, Num(10), "")>>) }

\* The file bodies the server sends: the two bytes 1, 2.
FileBodies == { <<1, 2>> }

\* Statuses other than 200 and 404.
OtherStatuses == { 403, 500 }

NoText == [nstart |-> 0, nend |-> 0, lines |-> <<>>]

\* What requests.get can return: response.status_code, whether
\* response.content starts with LISTING, and the body (response.content of a
\* file, response.text of a listing).
Response(s, l, b, t) == [status |-> s, listing |-> l, content |-> b, text |-> t]

Responses ==
    { Response(404, FALSE, <<>>, NoText) }
    \cup { Response(s, FALSE, <<>>, NoText) : s \in OtherStatuses }
    \cup { Response(200, FALSE, b, NoText) : b \in FileBodies }
    \cup { Response(200, TRUE, <<>>, t) : t \in GoodTexts \cup ServedBadTexts }

\* The answer of a GET the operation does not issue.
NoAnswer == Response(0, FALSE, <<>>, NoText)

\* What a GET's answer settles: 'absent', 'file' and 'listing' are stored in
\* the cache; 'failed' (a status that is neither 200 nor 404, or a listing
\* the parser rejects) is not.
Class(r) ==
    IF r.status = 404 THEN "absent"
    ELSE IF r.status # 200 THEN "failed"
    ELSE IF ~r.listing THEN "file"
    ELSE IF ParseListing(r.text).ok THEN "listing" ELSE "failed"

\* ------------------------------------------------------------------ state

VARIABLES
    cache,   \* self._cache: path -> Unset (no key), Absent (None), bytes, OrderedDict
    fd,      \* self.fd
    log,     \* history: for each path, the classes of the answers of its GETs
    last,    \* history: the last operation, the arguments it reads and its outcome
    watch    \* the operations whose calls last records; fixed from the start

vars == << cache, fd, log, last, watch >>

Ok(v) == [ok |-> TRUE, val |-> v, exc |-> ""]

Raise(e) == [ok |-> FALSE, val |-> <<>>, exc |-> e]

\* The exceptions that are FuseOSError(errno.X), named by X.
FuseErrnos == { "EIO", "ENOENT", "EROFS", "EISDIR", "ENOTDIR", "EPERM", "EACCES" }

HasKey(d, k) == \E i \in 1..Len(d) : d[i].name = k

Lookup(d, k) == d[CHOOSE i \in 1..Len(d) : d[i].name = k]

\* Mutant of BackPatch: the patched entry is deleted and inserted again, which
\* moves it to the end of the OrderedDict.
BackPatchMovesToEnd(d, k, n) ==
    LET i == CHOOSE j \in 1..Len(d) : d[j].name = k
    IN  SubSeq(d, 1, i - 1) \o SubSeq(d, i + 1, Len(d)) \o << [d[i] EXCEPT !.size = n] >>

\* Mutant of BackPatch: every entry of the parent takes the length.
BackPatchEveryEntry(d, k, n) ==
    [i \in 1..Len(d) |-> [d[i] EXCEPT !.size = n]]

\* pardir[basename] = icon, len(response.content), mtime_dt
BackPatch(d, k, n) ==
    [i \in 1..Len(d) |-> IF d[i].name = k THEN [d[i] EXCEPT !.size = n] ELSE d[i]]

\* Mutant of StoreAbsent: the 404 leaves no tombstone.
StoreNothing(c, path) == c

\* self._cache[path] = None on a 404.
StoreAbsent(c, path) == [c EXCEPT ![path] = Absent]

\* What a call leaves and yields: the cache and the GET log after it, and
\* its outcome.
Out(c, lg, res) == [cache |-> c, log |-> lg, res |-> res]

\* Mutant of StoreListing: a listing the parser rejects is stored as an
\* empty listing.
StoreListingOrEmpty(c, lg, path, parsed) ==
    IF ~parsed.ok
    THEN Out([c EXCEPT ![path] = DirectoryListing(<<>>)], lg, Raise(parsed.exc))
    ELSE Out([c EXCEPT ![path] = DirectoryListing(parsed.entries)], lg,
             Ok(DirectoryListing(parsed.entries)))

\* _get, lines 63-64: the parsed listing is stored, a parser failure
\* propagates with nothing stored.
StoreListing(c, lg, path, parsed) ==
    IF ~parsed.ok THEN Out(c, lg, Raise(parsed.exc))
    ELSE Out([c EXCEPT ![path] = DirectoryListing(parsed.entries)], lg,
             Ok(DirectoryListing(parsed.entries)))

\* _get, lines 68-72: par is the outcome of _get(dirname(path)), n the
\* length of the content stored for path.
PatchParent(par, path, n) ==
    IF ~par.res.ok THEN par
    ELSE IF par.res.val.tag # "Dir"
    THEN Out(par.cache, par.log, Raise("TypeError"))
    ELSE IF ~HasKey(par.res.val.entries, Basename(path))
    THEN Out(par.cache, par.log, Raise("KeyError"))
    ELSE Out([par.cache EXCEPT ![Dirname(path)] =
                DirectoryListing(BackPatch(par.res.val.entries, Basename(path), n))],
             par.log, Ok(par.cache[path]))

\* Http._get.  c and lg are the cache and the GET log before the call, rs
\* the server's answer for each path.
RECURSIVE Get(_, _, _, _)

\* _get, lines 53-72: the cache has no key for path; response answers the
\* GET, and lg is the log with that GET.
Fetch(c, lg, path, rs, response) ==
    IF response.status = 404
    THEN Out(StoreAbsent(c, path), lg, Raise("FileNotFoundError"))
    ELSE IF response.status # 200
    THEN Out(c, lg, Raise("EIO"))
    ELSE IF response.listing
    THEN StoreListing(c, lg, path, ParseListing(response.text))
    ELSE PatchParent(Get([c EXCEPT ![path] = FileContent(response.content)],
                         lg, Dirname(path), rs),
                     path, Len(response.content))

Get(c, lg, path, rs) ==
    IF c[path].tag = "Absent" THEN Out(c, lg, Raise("FileNotFoundError"))
    ELSE IF c[path].tag # "Unset" THEN Out(c, lg, Ok(c[path]))
    ELSE Fetch(c, [lg EXCEPT ![path] = Append(@, Class(rs[path]))], path, rs, rs[path])

\* How many nested calls of _get (line 68) a call _get(path) makes: one
\* when the path has no key and its GET is answered by a file body, and
\* then those of the call for the parent, made with the content stored.
RECURSIVE NestedCalls(_, _, _)
NestedCalls(c, path, rs) ==
    IF c[path].tag # "Unset" THEN 0
    ELSE IF rs[path].status = 200 /\ ~rs[path].listing
    THEN 1 + NestedCalls([c EXCEPT ![path] = FileContent(rs[path].content)],
                         Dirname(path), rs)
    ELSE 0

\* ------------------------------------------------------------ the adapter

RECURSIVE BitAnd(_, _)
BitAnd(a, b) ==
    IF a = 0 \/ b = 0 THEN 0
    ELSE (a % 2) * (b % 2) + 2 * BitAnd(a \div 2, b \div 2)

\* The root's synthetic entry: ('DIR', 0, datetime.fromtimestamp(0)).
RootDent == [name |-> "", icon |-> "DIR", size |-> 0, mtime |-> 0]

\* _getdent, lines 114-123: dir is the outcome of _get(dirname(path)).
DentIn(dir, path) ==
    IF ~dir.res.ok
    THEN IF dir.res.exc = "FileNotFoundError"
         THEN Out(dir.cache, dir.log, Raise("ENOENT"))
         ELSE dir
    ELSE IF dir.res.val.tag # "Dir"
    THEN Out(dir.cache, dir.log, Raise("ENOENT"))
    ELSE IF HasKey(dir.res.val.entries, Basename(path))
    THEN Out(dir.cache, dir.log, Ok(Lookup(dir.res.val.entries, Basename(path))))
    ELSE Out(dir.cache, dir.log, Raise("FileNotFoundError"))

\* Mutant of Getdent: the root is looked up like any other path.
GetdentWithoutRoot(c, lg, path, rs) ==
    DentIn(Get(c, lg, Dirname(path), rs), path)

\* Http._getdent.
Getdent(c, lg, path, rs) ==
    IF path = <<>> THEN Out(c, lg, Ok(RootDent))
    ELSE DentIn(Get(c, lg, Dirname(path), rs), path)

\* Mutant of TranslateNotFound: the except clause is missing.
KeepNotFound(res) == res

\* except FileNotFoundError: raise FuseOSError(errno.ENOENT)
TranslateNotFound(res) ==
    IF ~res.ok /\ res.exc = "FileNotFoundError" THEN Raise("ENOENT") ELSE res

\* What an operation leaves and yields: the cache, the log and fd after it,
\* and its outcome.
Done(c, lg, f, res) == [cache |-> c, log |-> lg, fd |-> f, res |-> res]

\* access, lines 151-156: r is the outcome of _getdent(path) after the
\* except clause.
CheckExec(r, mode) ==
    IF ~r.ok THEN r
    ELSE IF BitAnd(mode, X_OK) # 0 /\ r.val.icon # "DIR" THEN Raise("EACCES")
    ELSE Ok(<<>>)

AccessDent(d, f, mode) ==
    Done(d.cache, d.log, f, CheckExec(TranslateNotFound(d.res), mode))

\* Http.access.
Access(c, lg, f, path, mode, rs) ==
    IF BitAnd(mode, W_OK) # 0 THEN Done(c, lg, f, Raise("EROFS"))
    ELSE AccessDent(Getdent(c, lg, path, rs), f, mode)

\* The dictionary getattr returns (st_atime and st_ctime are st_mtime, and
\* st_uid and st_gid the fixed ids of 'nobody').
Attributes(dent) ==
    [st_mode |-> IF dent.icon = "DIR" THEN DirPerm + S_IFDIR ELSE FilePerm + S_IFREG,
     st_nlink |-> 1 + (IF dent.icon = "DIR" THEN 1 ELSE 0),
     st_size |-> dent.size,
     st_mtime |-> dent.mtime]

\* getattr, lines 172-187: r is the outcome of _getdent(path) after the
\* except clause.
Stat(r) == IF ~r.ok THEN r ELSE Ok(Attributes(r.val))

GetattrDent(d, f) == Done(d.cache, d.log, f, Stat(TranslateNotFound(d.res)))

\* Http.getattr.
Getattr(c, lg, f, path, rs) == GetattrDent(Getdent(c, lg, path, rs), f)

Names(d) == [i \in 1..Len(d) |-> d[i].name]

\* readdir, lines 192-195: res is the outcome of _get(path).
Dirents(res) ==
    IF ~res.ok THEN res
    ELSE IF res.val.tag # "Dir" THEN Raise("ENOTDIR")
    ELSE Ok(<<".", "..">> \o Names(res.val.entries))

ReaddirEntry(entry, f) == Done(entry.cache, entry.log, f, Dirents(entry.res))

\* Http.readdir.
Readdir(c, lg, f, path, rs) == ReaddirEntry(Get(c, lg, path, rs), f)

\* flags &= ~O_LARGEFILE
MaskLargeFile(flags) == flags - BitAnd(flags, O_LARGEFILE)

\* Mutant of Handle: self.fd is incremented before the directory check.
HandleCountedFirst(c, lg, f, r) ==
    IF ~r.ok THEN Done(c, lg, f, r)
    ELSE IF r.val.tag = "Dir" THEN Done(c, lg, f + 1, Raise("EISDIR"))
    ELSE Done(c, lg, f + 1, Ok(f + 1))

\* open, lines 250-257: r is the outcome of _get(path) after the except clause.
Handle(c, lg, f, r) ==
    IF ~r.ok THEN Done(c, lg, f, r)
    ELSE IF r.val.tag = "Dir" THEN Done(c, lg, f, Raise("EISDIR"))
    ELSE Done(c, lg, f + 1, Ok(f + 1))

OpenResult(result, f) ==
    Handle(result.cache, result.log, f, TranslateNotFound(result.res))

\* Mutant of Open: the path is looked up before the flags are checked.
OpenLooksUpFirst(c, lg, f, path, flags, rs) ==
    LET result == Get(c, lg, path, rs)
    IN  IF result.res.ok /\ MaskLargeFile(flags) # O_RDONLY
        THEN Done(result.cache, result.log, f, Raise("EROFS"))
        ELSE OpenResult(result, f)

\* Http.open.
Open(c, lg, f, path, flags, rs) ==
    IF MaskLargeFile(flags) # O_RDONLY THEN Done(c, lg, f, Raise("EROFS"))
    ELSE OpenResult(Get(c, lg, path, rs), f)

\* result[offset:offset+length] on bytes.
Slice(b, offset, length) ==
    SubSeq(b, offset + 1, IF offset + length < Len(b) THEN offset + length ELSE Len(b))

\* What slicing an OrderedDict raises: 'unhashable type: slice' (TypeError)
\* before Python 3.12, KeyError since (slices are hashable there).
SliceOfDict == { "TypeError", "KeyError" }

\* read, line 269: res is the outcome of _get(path), e what the interpreter
\* raises on slicing an OrderedDict.
Sliced(res, length, offset, e) ==
    IF ~res.ok THEN res
    ELSE IF res.val.tag = "Dir" THEN Raise(e)
    ELSE Ok(Slice(res.val.content, offset, length))

ReadResult(result, f, length, offset, e) ==
    Done(result.cache, result.log, f, Sliced(result.res, length, offset, e))

\* Http.read.
Read(c, lg, f, path, length, offset, rs, e) ==
    ReadResult(Get(c, lg, path, rs), f, length, offset, e)

\* The operations that raise FuseOSError(errno.EROFS) whatever they are given.
ReadOnlyOps == { "chmod", "chown", "rmdir", "mkdir", "unlink", "symlink",
                 "rename", "link", "utimens", "create", "write", "truncate" }

\* The operations whose body is 'pass'.
NoOps == { "flush", "release", "fsync" }

\* Mutant of Policy: mknod raises EROFS like its neighbours.
PolicyAllReadOnly(op) ==
    IF op \in ReadOnlyOps \cup { "mknod" } THEN Raise("EROFS")
    ELSE IF op = "readlink" THEN Raise("NotImplementedError")
    ELSE Ok(<<>>)

\* chmod ... truncate, mknod, readlink, flush, release, fsync: none reads self.
Policy(op) ==
    IF op \in ReadOnlyOps THEN Raise("EROFS")
    ELSE IF op = "mknod" THEN Raise("EPERM")
    ELSE IF op = "readlink" THEN Raise("NotImplementedError")
    ELSE Ok(<<>>)

\* Http.statfs: fixed figures (f_bsize, f_blocks, f_namemax shown).
Statfs == Ok([f_bsize |-> 4096, f_blocks |-> 4114392, f_namemax |-> 255])

\* ----------------------------------------------------------------- actions

\* The path recorded for an operation that does not read its arguments.
Unread == << "*" >>

\* What last holds when the last operation is not one of those watched.
Unwatched == [op |-> "", path |-> Unread, args |-> <<>>, res |-> Ok(<<>>)]

LookupOps == { "access", "getattr", "readdir", "open", "read" }

Operations == LookupOps \cup ReadOnlyOps \cup NoOps \cup { "mknod", "readlink", "statfs" }

\* Http.__init__: an empty cache; fd = 0 is the class attribute.
InitWatching(w) ==
    /\ cache = [p \in Paths |-> Unset]
    /\ fd = 0
    /\ log = [p \in Paths |-> <<>>]
    /\ last = Unwatched
    /\ watch = w

Init == InitWatching(Operations)

\* The answers the server may give to the GETs of an operation that looks
\* target up.  A GET goes to target or to one of its ancestors, only to a
\* path the cache has no key for, and to a parent only after its child was
\* answered by a file body.  d is the depth of the path asked, below the
\* answer the path one level deeper got.
Need(target, d, below) ==
    IF /\ d <= Len(target)
       /\ cache[SubSeq(target, 1, d)].tag = "Unset"
       /\ (d = Len(target) \/ (below.status = 200 /\ ~below.listing))
    THEN Responses ELSE { NoAnswer }

Server(r0, r1, r2) ==
    [q \in Paths |-> IF Len(q) = 0 THEN r0 ELSE IF Len(q) = 1 THEN r1 ELSE r2]

RECURSIVE Sum(_, _)
Sum(f, S) ==
    IF S = {} THEN 0
    ELSE LET x == CHOOSE y \in S : TRUE IN f[x] + Sum(f, S \ {x})

\* How many GETs so far were answered by an error status or a malformed listing.
Failures(lg) ==
    Sum([q \in Paths |->
           Cardinality({ i \in 1..Len(lg[q]) : lg[q][i] = "failed" })],
        Paths)

\* The operation's effect becomes the next state, within the bounds.
Commit(op, path, args, out) ==
    /\ Failures(out.log) <= MaxFailures
    /\ \A q \in Paths : Len(out.log[q]) <= MaxFailures + 1
    /\ out.fd <= MaxFd
    /\ cache' = out.cache
    /\ log' = out.log
    /\ fd' = out.fd
    /\ last' = IF op \in watch
               THEN [op |-> op, path |-> path, args |-> args, res |-> out.res]
               ELSE Unwatched
    /\ watch' = watch

\* F_OK, X_OK, W_OK.
AccessModes == { 0, 1, 2 }

\* O_RDONLY, O_WRONLY, O_RDONLY | O_LARGEFILE, O_WRONLY | O_LARGEFILE.
OpenFlags == { 0, 1, 32768, 32769 }

ReadLengths == { 1 }

ReadOffsets == { 0, 1 }

DoAccess ==
    \E path \in Paths, mode \in AccessModes :
      \E r1 \in Need(Dirname(path), 1, NoAnswer) :
        \E r0 \in Need(Dirname(path), 0, r1) :
          Commit("access", path, <<mode>>,
                 Access(cache, log, fd, path, mode, Server(r0, r1, NoAnswer)))

DoGetattr ==
    \E path \in Paths :
      \E r1 \in Need(Dirname(path), 1, NoAnswer) :
        \E r0 \in Need(Dirname(path), 0, r1) :
          Commit("getattr", path, <<>>,
                 Getattr(cache, log, fd, path, Server(r0, r1, NoAnswer)))

DoReaddir ==
    \E path \in Paths :
      \E r2 \in Need(path, 2, NoAnswer) :
        \E r1 \in Need(path, 1, r2) :
          \E r0 \in Need(path, 0, r1) :
            Commit("readdir", path, <<>>,
                   Readdir(cache, log, fd, path, Server(r0, r1, r2)))

DoOpen ==
    \E path \in Paths, flags \in OpenFlags :
      \E r2 \in Need(path, 2, NoAnswer) :
        \E r1 \in Need(path, 1, r2) :
          \E r0 \in Need(path, 0, r1) :
            Commit("open", path, <<flags>>,
                   Open(cache, log, fd, path, flags, Server(r0, r1, r2)))

DoRead ==
    \E path \in Paths, length \in ReadLengths, offset \in ReadOffsets :
      \E r2 \in Need(path, 2, NoAnswer) :
        \E r1 \in Need(path, 1, r2) :
          \E r0 \in Need(path, 0, r1) :
            \E e \in SliceOfDict :
              Commit("read", path, <<length, offset>>,
                     Read(cache, log, fd, path, length, offset, Server(r0, r1, r2), e))

DoPolicy ==
    \E op \in ReadOnlyOps \cup NoOps \cup { "mknod", "readlink" } :
      Commit(op, Unread, <<>>,
             Done(cache, log, fd, Policy(op)))

DoStatfs ==
    Commit("statfs", Unread, <<>>,
           Done(cache, log, fd, Statfs))

Next ==
    \/ DoAccess
    \/ DoGetattr
    \/ DoReaddir
    \/ DoOpen
    \/ DoRead
    \/ DoPolicy
    \/ DoStatfs

\* Every operation, last recording each call.
Spec == Init /\ [][Next]_vars

\* Every operation, last recording no call: the cache, the log and fd alone.
SpecState == InitWatching({}) /\ [][Next]_vars

\* Every operation, last recording the calls of open.
SpecOpen == InitWatching({ "open" }) /\ [][Next]_vars

\* Every operation, last recording the calls of open and read.
SpecOpenRead == InitWatching({ "open", "read" }) /\ [][Next]_vars

\* Every operation, last recording the calls of getattr.
SpecGetattr == InitWatching({ "getattr" }) /\ [][Next]_vars

\* Every operation, last recording the calls of readdir.
SpecReaddir == InitWatching({ "readdir" }) /\ [][Next]_vars

\* Every operation, last recording the calls of the operations that read no state.
SpecPolicy == InitWatching(ReadOnlyOps \cup NoOps \cup { "mknod" }) /\ [][Next]_vars

\* ------------------------------------------------------ the parser alone

\* The size fields and units of the entry lines given to the parser: the
\* dash, numbers with the units '', 'K' and 'M' (the sizes of larger units
\* do not fit the model's integers), a field float() rejects and a unit
\* that is not in sizes.
ParserFields ==
    { <<Dash, "">>, <<NotANumber, "">>, <<Num(10), "B">> }
    \cup { <<Num(t), u>> : t \in { 0, 9, 15, 100 }, u \in { "", "K", "M" } }

\* The entry lines given to the parser: the pattern matches each.
ParserLines ==
    { EntryLine(icon, url, name, date, f[1], f[2]) :
        icon \in { "DIR", "TXT" },
        url \in { Nm("a", 0), Nm("a", 1) },
        name \in { Nm("a", 0), Nm("a", 1) },
        date \in { 0, 1 },
        f \in ParserFields }

\* The lines that follow them: a directory 'a', a file 'b', a line the
\* pattern does not match.
ParserSecondLines == { DirA, FileB, JunkLine }

\* The texts given to the parser.
ParserTexts ==
    GoodTexts \cup BadTexts
    \cup { Text(<<l>>) : l \in ParserLines }
    \cup { Text(<<l, m>>) : l \in ParserLines, m \in ParserSecondLines }

\* What a call of _parse_listing yields.
Parsed(p) == IF p.ok THEN Ok(p.entries) ELSE Raise(p.exc)

\* _parse_listing is called once, on a text of ParserTexts.
DoParseListing ==
    /\ last.op = ""
    /\ \E text \in ParserTexts :
         last' = [op |-> "_parse_listing", path |-> Unread, args |-> <<text>>,
                  res |-> Parsed(ParseListing(text))]
    /\ UNCHANGED << cache, fd, log, watch >>

\* The parser alone, on one text.
SpecParser == InitWatching({ "_parse_listing" }) /\ [][DoParseListing]_vars

\* ------------------------------------------- a server of malformed listings

\* readdir on a path the cache has no key for, the server answering its GET
\* with a listing the parser rejects; last records the text with the call.
DoReaddirMalformed ==
    \E path \in Paths, text \in BadTexts :
      /\ cache[path].tag = "Unset"
      /\ Commit("readdir", path, <<text>>,
                Readdir(cache, log, fd, path,
                        [q \in Paths |-> Response(200, TRUE, <<>>, text)]))

NextMalformed ==
    \/ Next
    \/ DoReaddirMalformed

\* Every operation, the server sending each kind of malformed listing, last
\* recording the calls of readdir.
SpecMalformed == InitWatching({ "readdir" }) /\ [][NextMalformed]_vars

\* ------------------------------------------------------- a stable server

\* The answers of a server whose responses do not change: one for each
\* class, so that the class logged for a GET tells the answer.
StableResponses ==
    { Response(404, FALSE, <<>>, NoText),
      Response(500, FALSE, <<>>, NoText),
      Response(200, FALSE, <<1, 2>>, NoText),
      Response(200, TRUE, <<>>, Text(<<DirA, FileB>>)) }

\* The server answers a path as it answered it before.
AsBefore(rs) ==
    \A q \in Paths : \A i \in 1..Len(log[q]) : log[q][i] = Class(rs[q])

DoOpenStable ==
    \E path \in Paths, flags \in OpenFlags :
      \E rs \in [Paths -> StableResponses] :
        /\ AsBefore(rs)
        /\ Commit("open", path, <<flags>>, Open(cache, log, fd, path, flags, rs))

DoReaddirStable ==
    \E path \in Paths :
      \E rs \in [Paths -> StableResponses] :
        /\ AsBefore(rs)
        /\ Commit("readdir", path, <<>>, Readdir(cache, log, fd, path, rs))

DoGetattrStable ==
    \E path \in Paths :
      \E rs \in [Paths -> StableResponses] :
        /\ AsBefore(rs)
        /\ Commit("getattr", path, <<>>, Getattr(cache, log, fd, path, rs))

NextStable ==
    \/ DoOpenStable
    \/ DoReaddirStable
    \/ DoGetattrStable

\* open, readdir and getattr against a server whose responses do not change,
\* last recording the calls of open.
SpecStable == InitWatching({ "open" }) /\ [][NextStable]_vars

\* ------------------------------------------------------------------ claims

Raised(res, e) == ~res.ok /\ res.exc = e

Returned(res, v) == res.ok /\ res.val = v

IsDir(e) == e.tag = "Dir"

IsFile(e) == e.tag = "File"

\* C1 (as stated): over the life of the instance at most one GET is issued
\* for each path, whatever the first answer was.
C1_AtMostOneGet ==
    \A p \in Paths : Len(log[p]) <= 1

\* C1 (amended): for each path, every GET but the last one issued was
\* answered by a failure (a status that is neither 200 nor 404, or a listing
\* the parser rejects); so at most one GET of a path is answered by 404, a
\* file body or a well-formed listing, no GET follows it, and the path has a
\* cache entry exactly when its last GET was answered that way.
C1_NoGetAfterSettlingAnswer ==
    \A p \in Paths :
        /\ \A i \in 1..(Len(log[p]) - 1) : log[p][i] = "failed"
        /\ cache[p].tag # "Unset"
             <=> (log[p] # <<>> /\ log[p][Len(log[p])] # "failed")

\* A path fetched again after a failed GET, and settled by the second answer.
C1_Witness ==
    \E p \in Paths : Len(log[p]) = 2 /\ log[p][2] \in { "absent", "file", "listing" }

\* C2 (as stated): the back-patch invariant.  Whenever the cache holds file
\* content of length L for P, the cache entry of dirname(P) is a listing with
\* an entry named basename(P) of size L, whose kind and modifiedTime are
\* those of a listing the server sent.  (Stated for the paths below the
\* root: the root has no entry in any listing.)
C2_BackPatchInvariant ==
    \A P \in Paths \ { <<>> } :
        IsFile(cache[P]) =>
            /\ IsDir(cache[Dirname(P)])
            /\ HasKey(cache[Dirname(P)].entries, Basename(P))
            /\ LET e == Lookup(cache[Dirname(P)].entries, Basename(P))
               IN  /\ e.size = Len(cache[P].content)
                   /\ \E t \in GoodTexts :
                        \E i \in 1..Len(ParseListing(t).entries) :
                            LET parsed == ParseListing(t).entries[i]
                            IN  /\ parsed.name = e.name
                                /\ parsed.icon = e.icon
                                /\ parsed.mtime = e.mtime

\* C3 (as stated): a call of _get(path), here through open, that
\* fails with the transport failure EIO leaves no cache entry for path.
C3_TransportFailureStoresNothing ==
    (last.op = "open" /\ Raised(last.res, "EIO"))
        => cache[last.path].tag = "Unset"

\* The server's answer to no GET at all: _get on a cached path asks nothing.
Silent == [q \in Paths |-> NoAnswer]

\* C4: tombstone permanence.  Once a GET of a path was answered by 404, that
\* GET is the last one of the path, the cache holds Absent for it, and
\* _get(path) raises FileNotFoundError without a GET and without a change
\* of the cache.
C4_TombstonePermanence ==
    \A p \in Paths :
        (\E i \in 1..Len(log[p]) : log[p][i] = "absent") =>
            /\ log[p][Len(log[p])] = "absent"
            /\ \A i \in 1..(Len(log[p]) - 1) : log[p][i] # "absent"
            /\ cache[p] = Absent
            /\ LET g == Get(cache, log, p, Silent)
               IN  /\ Raised(g.res, "FileNotFoundError")
                   /\ g.cache = cache
                   /\ g.log = log

\* A path that is absent although its parent, fetched later, lists it, and
\* while other operations went on (a handle was handed out).
C4_Witness ==
    /\ cache[<<"a">>] = Absent
    /\ IsDir(cache[<<>>])
    /\ HasKey(cache[<<>>].entries, "a")
    /\ fd > 0

\* C5 (as stated): getattr of a non-root path whose GET returned 404 (the
\* cache holds Absent for it) fails with ENOENT, whatever the parent's
\* listing holds.
C5_AbsentPathIsENOENT ==
    (last.op = "getattr" /\ last.path # <<>> /\ cache[last.path] = Absent)
        => Raised(last.res, "ENOENT")

\* C5 (amended): getattr of a non-root path looks at the parent's cache
\* entry alone.  It fails with ENOENT whenever the parent is Absent or is a
\* listing with no entry named basename(path), and whenever the parent is a
\* listing with such an entry it returns the attributes of that entry, even
\* when the cache holds Absent for the path itself.
C5_GetattrFollowsParentListing ==
    (last.op = "getattr" /\ last.path # <<>>) =>
        LET par == cache[Dirname(last.path)]
            name == Basename(last.path)
        IN  /\ par = Absent => Raised(last.res, "ENOENT")
            /\ (IsDir(par) /\ ~HasKey(par.entries, name)) => Raised(last.res, "ENOENT")
            /\ (IsDir(par) /\ HasKey(par.entries, name))
                 => Returned(last.res, Attributes(Lookup(par.entries, name)))

\* getattr answers ENOENT for a path the parent's listing does not name.
C5_Witness ==
    /\ last.op = "getattr"
    /\ last.path # <<>>
    /\ IsDir(cache[Dirname(last.path)])
    /\ ~HasKey(cache[Dirname(last.path)].entries, Basename(last.path))
    /\ Raised(last.res, "ENOENT")

\* flags with the large-file bit 0o100000 cleared.
WithoutLargeFile(flags) == flags - O_LARGEFILE * ((flags \div O_LARGEFILE) % 2)

\* C6 (as stated): open for reading and read both fail with EISDIR whenever
\* the cache entry obtained for the path is a DirectoryListing.
C6_DirectoryIsEISDIR ==
    ( /\ last.op \in { "open", "read" }
      /\ last.op = "open" => WithoutLargeFile(last.args[1]) = O_RDONLY
      /\ IsDir(cache[last.path]) )
        => Raised(last.res, "EISDIR")

\* C7: open with flags that, the large-file bit cleared, differ from
\* O_RDONLY fails with EROFS, whatever the path and its cache entry; the
\* call issues no GET and leaves the cache and the handle counter as they were.
C7_WriteFlagsAreEROFS ==
    [][ (last'.op = "open" /\ WithoutLargeFile(last'.args[1]) # O_RDONLY)
          => /\ Raised(last'.res, "EROFS")
             /\ cache' = cache
             /\ fd' = fd
             /\ log' = log ]_vars

\* open for writing on a path the cache holds Absent for: EROFS, not ENOENT.
C7_Witness ==
    /\ last.op = "open"
    /\ last.args = << 32769 >>
    /\ cache[last.path] = Absent
    /\ Raised(last.res, "EROFS")

\* The names of a listing text, in the order of its entry lines.
TextNames(t) == [i \in 1..(Len(t.lines) - 2) |-> t.lines[i + 1].name.base]

\* The parent's entry for p carries the length of p's content.
Patched(c, p) ==
    /\ IsDir(c[Dirname(p)])
    /\ HasKey(c[Dirname(p)].entries, Basename(p))
    /\ Lookup(c[Dirname(p)].entries, Basename(p)).size = Len(c[p].content)

\* C8: readdir fails with ENOTDIR when _get returns file content (from the
\* cache, or fetched and back-patched by the call), and only then; when the
\* entry is a listing it returns '.', '..' and the listing's names, which
\* are the names of the text in the order of its lines; and no step, a
\* back-patch included, changes the names of a cached listing or their order.
C8_ReaddirNamesInOrder ==
    [][ /\ \A q \in Paths :
              IsDir(cache[q]) => /\ IsDir(cache'[q])
                                 /\ Names(cache'[q].entries) = Names(cache[q].entries)
        /\ last'.op = "readdir" =>
             LET p == last'.path
             IN  /\ IsFile(cache[p]) => Raised(last'.res, "ENOTDIR")
                 /\ (cache[p] = Unset /\ IsFile(cache'[p]) /\ Patched(cache', p))
                      => Raised(last'.res, "ENOTDIR")
                 /\ Raised(last'.res, "ENOTDIR") => IsFile(cache'[p])
                 /\ IsDir(cache'[p])
                      => Returned(last'.res, <<".", "..">> \o Names(cache'[p].entries))
                 /\ last'.res.ok => IsDir(cache'[p])
                 /\ (cache[p] = Unset /\ IsDir(cache'[p]))
                      => \E t \in GoodTexts : Names(cache'[p].entries) = TextNames(t)
      ]_vars

\* readdir of a listing one of whose entries was back-patched before.
C8_Witness ==
    /\ last.op = "readdir"
    /\ Returned(last.res, <<".", "..", "a", "b">>)
    /\ IsDir(cache[last.path])
    /\ Lookup(cache[last.path].entries, "a").size = 2

\* C9: the read-only policy.  mkdir, rmdir, unlink, symlink, rename, link,
\* chmod, chown, create, write, truncate and utimens raise EROFS, mknod
\* raises EPERM, flush, release and fsync return; each of them issues no GET
\* and leaves the cache and the handle counter as they were.
C9_ReadOnlyPolicy ==
    [][ LET mutating == { "mkdir", "rmdir", "unlink", "symlink", "rename", "link",
                          "chmod", "chown", "create", "write", "truncate", "utimens" }
            noops == { "flush", "release", "fsync" }
        IN  last'.op \in mutating \cup noops \cup { "mknod" } =>
              /\ last'.op \in mutating => Raised(last'.res, "EROFS")
              /\ last'.op = "mknod" => Raised(last'.res, "EPERM")
              /\ last'.op \in noops => last'.res.ok
              /\ cache' = cache
              /\ fd' = fd
              /\ log' = log ]_vars

\* mknod refused with EPERM on an instance that has cached paths and handed
\* out a handle.
C9_Witness ==
    /\ last.op = "mknod"
    /\ Raised(last.res, "EPERM")
    /\ fd > 0
    /\ \E p \in Paths : IsDir(cache[p])

\* C10: getattr('/') returns a directory (S_IFDIR | 0o555, two links) of
\* size 0 with the epoch timestamp, whatever the cache holds; it issues no
\* GET and changes nothing.
C10_RootIsSyntheticDirectory ==
    [][ (last'.op = "getattr" /\ last'.path = <<>>)
          => /\ Returned(last'.res, [st_mode |-> S_IFDIR + DirPerm, st_nlink |-> 2,
                                     st_size |-> 0, st_mtime |-> 0])
             /\ cache' = cache
             /\ fd' = fd
             /\ log' = log ]_vars

\* getattr('/') answers while the root URL itself was answered by 404.
C10_Witness ==
    /\ last.op = "getattr"
    /\ last.path = <<>>
    /\ last.res.ok
    /\ cache[<<>>] = Absent

\* The entry lines of a text: the lines between the header and '<hr>'.
EntryLinesOf(text) == SubSeq(text.lines, 2, Len(text.lines) - 1)

\* The last entry line of a text that names n: the line the entry of n in
\* the parsed listing is made of.
LineOf(text, n) ==
    LET es == EntryLinesOf(text)
        i == CHOOSE j \in 1..Len(es) :
               /\ es[j].name.base = n
               /\ \A k \in (j + 1)..Len(es) : es[k].name.base # n
    IN  es[i]

\* The parser was called and returned a listing.
ParsedListing == last.op = "_parse_listing" /\ last.res.ok

\* Some entry of the listing the parser returned comes from a line with this
\* size field and unit.
ParsedField(f, u) ==
    /\ ParsedListing
    /\ \E i \in 1..Len(last.res.val) :
         /\ LineOf(last.args[1], last.res.val[i].name).size = f
         /\ LineOf(last.args[1], last.res.val[i].name).sizeunit = u

\* The entries of the listing the parser returned that come from a line with
\* this size field and unit all have this size.
SizeOfField(f, u, n) ==
    ParsedListing =>
      \A i \in 1..Len(last.res.val) :
        (/\ LineOf(last.args[1], last.res.val[i].name).size = f
         /\ LineOf(last.args[1], last.res.val[i].name).sizeunit = u)
        => last.res.val[i].size = n

\* 1024^r for the unit of rank r.
UnitScale(u) == CASE u = "" -> 1 [] u = "K" -> 1024 [] u = "M" -> 1048576

ParseFailures == { "AssertionError", "ValueError", "IndexError" }

\* The last call was a readdir whose GET the server answered with a
\* malformed listing.
MetMalformed(l) == l.op = "readdir" /\ l.args # <<>>

\* C12: _get(path) on a 200 response that has the listing signature and
\* violates the listing's structure fails with a parse failure, which is
\* neither NotFound nor the transport failure, and stores nothing (the cache
\* is as before, path without a key); a _get(path) on a path without a key
\* issues a GET, so the next one fetches again.
C12_MalformedListingStoresNothing ==
    [][ /\ MetMalformed(last') =>
             /\ ~last'.res.ok
             /\ last'.res.exc \in ParseFailures
             /\ last'.res.exc \notin { "FileNotFoundError", "ENOENT", "EIO" }
             /\ cache' = cache
             /\ cache'[last'.path] = Unset
             /\ log'[last'.path] = Append(log[last'.path], "failed")
        /\ (last'.op = "readdir" /\ cache[last'.path] = Unset) =>
             Len(log'[last'.path]) = Len(log[last'.path]) + 1
      ]_vars

C12_Witness ==
    /\ MetMalformed(last)
    /\ Raised(last.res, "AssertionError")
    /\ last.path = <<"a">>
    /\ cache[<<>>].tag = "Dir"
    /\ cache[<<"a">>] = Unset

\* C13: a request that meets a malformed listing, or file content whose
\* parent listing has no entry for its basename, raises FuseOSError(EIO),
\* the code of a transport failure, and no exception of the parser or of
\* the dictionary lookup.
C13_InternalFailuresAreEIO ==
    /\ MetMalformed(last) => Raised(last.res, "EIO")
    /\ (last.op = "readdir" /\ ~last.res.ok) =>
         last.res.exc \notin ParseFailures \cup { "KeyError" }

\* The last call looked its path up: an access that asks no write
\* permission, a getattr, a readdir, a read, or an open with read-only flags.
LookedUp(l) ==
    \/ l.op \in { "getattr", "readdir", "read" }
    \/ l.op = "access" /\ BitAnd(l.args[1], W_OK) = 0
    \/ l.op = "open" /\ MaskLargeFile(l.args[1]) = O_RDONLY

\* C14: access, getattr, open, readdir and read on a path whose cache entry
\* is (or has just become) Absent fail with FuseOSError(ENOENT).
C14_NotFoundIsENOENT ==
    (LookedUp(last) /\ cache[last.path] = Absent) => Raised(last.res, "ENOENT")

\* C15: a successful open returns self.fd + 1 and leaves it in self.fd, and
\* nothing else changes self.fd (not a failed open, not another operation);
\* self.fd starts at 0, so the n-th successful open returns n, more than
\* every handle before it.
C15_HandlesCountSuccessfulOpens ==
    [][ IF last'.op = "open" /\ last'.res.ok
        THEN fd' = fd + 1 /\ last'.res.val = fd'
        ELSE fd' = fd
      ]_vars

C15_Witness ==
    /\ last.op = "open"
    /\ last.res.ok
    /\ last.res.val = 2
    /\ fd = 2
    /\ \E p \in Paths : cache[p] = Absent

\* From one listing to the next, the names, their order, and each entry's
\* kind and time stay; a size changes only in the step that stores the
\* content of the entry's own path q, to the length of that content.
SameListingButPatches(p, d, e, c, cnext) ==
    /\ Len(e) = Len(d)
    /\ \A i \in 1..Len(d) :
         /\ e[i].name = d[i].name
         /\ e[i].icon = d[i].icon
         /\ e[i].mtime = d[i].mtime
         /\ e[i].size # d[i].size =>
              /\ Append(p, d[i].name) \in Paths
              /\ c[Append(p, d[i].name)] = Unset
              /\ IsFile(cnext[Append(p, d[i].name)])
              /\ e[i].size = Len(cnext[Append(p, d[i].name)].content)

\* C16: a path that has a cache entry keeps it, with its tag; file content
\* never changes; a listing keeps its names, their order, kinds and times,
\* and an entry's size changes only with the back-patch for the entry's own
\* path, which happens when that path gets its (immutable) entry: at most
\* once.
C16_CacheEntriesAreImmutable ==
    [][ \A p \in Paths :
          cache[p] # Unset =>
            /\ cache'[p].tag = cache[p].tag
            /\ (~IsDir(cache[p]) => cache'[p] = cache[p])
            /\ (IsDir(cache[p]) =>
                  SameListingButPatches(p, cache[p].entries, cache'[p].entries,
                                        cache, cache'))
      ]_vars

C16_Witness ==
    /\ IsDir(cache[<<"a">>])
    /\ IsFile(cache[<<"a", "b">>])
    /\ Patched(cache, <<"a", "b">>)
    /\ Lookup(cache[<<"a">>].entries, "b").size = 2
    /\ Lookup(cache[<<"a">>].entries, "a").size = 0

\* C17: whatever the cache holds and the server answers, _get(path) makes at
\* most depth(path) nested calls, each on a strictly shorter path; the root
\* is never stored as file content (and so never asked for its own parent).
C17_NestedCallsWithinDepth ==
    /\ ~IsFile(cache[<<>>])
    /\ \A p \in Paths, rs \in [Paths -> Responses] :
         NestedCalls(cache, p, rs) <= Len(p)

\* C18: in a listing the parser returns, an entry is a directory exactly
\* when its line's visible name ended with '/' and its icon was 'DIR', and
\* every directory entry has size 0, whatever the line's size field was.
C18_DirectoriesHaveSizeZero ==
    ParsedListing =>
      \A i \in 1..Len(last.res.val) :
        LET line == LineOf(last.args[1], last.res.val[i].name)
        IN  /\ (last.res.val[i].icon = "DIR")
                 <=> (line.name.slashes > 0 /\ line.icon = "DIR")
            /\ last.res.val[i].icon = "DIR" => last.res.val[i].size = 0

\* Two outcomes of the same kind: both a result, or both the same failure.
SameOutcome(r, t) == r.ok = t.ok /\ r.exc = t.exc

\* C19: against a server whose responses do not change, two calls of
\* _get(path) on the same path (here those of two read-only opens, one
\* right after the other) have the same outcome; a call that failed in the
\* back-patch is not followed by one that succeeds from the cache.
C19_RepeatableOutcome ==
    [][ (/\ last.op = "open" /\ last'.op = "open"
         /\ last'.path = last.path
         /\ MaskLargeFile(last.args[1]) = O_RDONLY
         /\ MaskLargeFile(last'.args[1]) = O_RDONLY)
        => SameOutcome(last.res, last'.res)
      ]_vars

\* C20: for a path other than the root, what getattr reports from the
\* parent's listing agrees with the path's own cache entry: a directory
\* only if the entry is not file content, a regular file only if the entry
\* is not a listing.
C20_KindsAgree ==
    (last.op = "getattr" /\ last.path # <<>> /\ last.res.ok) =>
      /\ last.res.val.st_mode = DirPerm + S_IFDIR => ~IsFile(cache[last.path])
      /\ last.res.val.st_mode = FilePerm + S_IFREG => ~IsDir(cache[last.path])

====
